---- MODULE Spec2Model ----
(***************************************************************************)
(* A model of the weather-forecast widget: the city-code resolver          *)
(* (citycodeutils.cpp), the forecast parser, the UI refresh, the two       *)
(* temperature-trend routines and the request/response shell (widget.cpp). *)
(*                                                                         *)
(* Text.  A QString is a sequence of characters, each character a one-     *)
(* element string.  Chinese characters are written in pinyin, one string   *)
(* per character: "shi" is U+5E02, "xian" is U+53BF, "qu" is U+533A,       *)
(* "zhuan" is U+8F6C.  Text that the program never takes apart (a URL      *)
(* prefix, a city code, an icon path) is one element.                      *)
(***************************************************************************)
EXTENDS Integers, Sequences, FiniteSets, TLC

VARIABLES
    qtDebug,        \* build configuration: Q_ASSERT active (QT_NO_DEBUG not defined)
    qtMinusSign,    \* build configuration: the Qt linked reads U+2212 as a minus sign
    citycodeJson,   \* the bytes of the bundled resource :/citycode.json
    CityMap,        \* CityCodeUtils::CityMap
    initCalls,      \* number of times InitCityMap has run (from a lookup or called directly)
    lookups,        \* number of getCityCodeFromName calls made
    lastName,       \* argument of the most recent getCityCodeFromName call
    lastCode,       \* value returned by the most recent getCityCodeFromName call
    strUrl,         \* Widget::strUrl
    gets,           \* number of manager->get(...) calls made
    inflight,       \* requests issued and not yet answered: records [id, url]
    submits,        \* number of submit events handled
    replies,        \* number of finished(reply) signals delivered
    delivered,      \* ids of the requests whose finished signal was handled, in order
    lastReply,      \* error() and status code of the reply delivered last
    lastRawData,    \* the bytes handed to the most recent parseWeatherJsonDataNew
    days,           \* Widget::days[7], indexed 0..6
    ui,             \* the texts, icons and style sheets of the labels
    msgBoxes,       \* the texts of the QMessageBox dialogs shown so far
    parses,         \* number of parseWeatherJsonDataNew invocations
    refreshes,      \* number of updateUI invocations
    crashed,        \* the process has aborted
    oobAccess,      \* an access outside days[7] or outside a QList has happened
    geom,           \* geometry of widget0404, widget0405 and the mAirqList labels
    pointsHigh,     \* points[6] computed by the last drawTempLineHigh
    pointsLow       \* points[6] computed by the last drawTempLineLow

resolverVars == <<citycodeJson, CityMap, initCalls, lookups, lastName, lastCode>>
shellData == <<strUrl, gets, inflight, submits, replies, delivered, lastReply, lastRawData,
               days, ui, msgBoxes, parses, refreshes, oobAccess>>
shellVars == <<shellData, crashed>>
trendVars == <<geom, pointsHigh, pointsLow>>
buildVars == <<qtDebug, qtMinusSign>>
vars == <<buildVars, resolverVars, shellVars, trendVars>>

(***************************************************************************)
(* Bounds of the model.                                                    *)
(***************************************************************************)
MaxLookups == 2
MaxSubmits == 2
MaxReplies == 2
MaxInitCalls == 3

(***************************************************************************)
(* JSON values (QJsonValue).  Every value has the same four fields; the    *)
(* tag t says which one is meant.                                          *)
(***************************************************************************)
NoText == << >>
JUndef == [t |-> "undef", s |-> << >>, a |-> << >>, o |-> << >>]
JNum == [t |-> "num", s |-> << >>, a |-> << >>, o |-> << >>]
JStr(x) == [t |-> "str", s |-> x, a |-> << >>, o |-> << >>]
JArr(x) == [t |-> "arr", s |-> << >>, a |-> x, o |-> << >>]
JObj(f) == [t |-> "obj", s |-> << >>, a |-> << >>, o |-> f]

\* Bytes handed to QJsonDocument::fromJson: well-formed or not, and the value
\* they denote when well-formed.
Bytes(v) == [valid |-> TRUE, root |-> v]
BadBytes == [valid |-> FALSE, root |-> JUndef]

\* QJsonDocument::fromJson: a null document unless the bytes are well-formed
\* JSON whose top-level value is an object or an array.
FromJson(raw) ==
    IF raw.valid /\ raw.root.t \in {"obj", "arr"} THEN raw.root ELSE JUndef

toString(v) == IF v.t = "str" THEN v.s ELSE NoText
toArray(v) == IF v.t = "arr" THEN v.a ELSE << >>
toObject(v) == IF v.t = "obj" THEN v.o ELSE << >>
Contains(obj, key) == key \in DOMAIN obj
\* QJsonObject::operator[] / QJsonValue::operator[](key): the member, or an
\* undefined (null) value when the key is absent.
Member(obj, key) == IF key \in DOMAIN obj THEN obj[key] ELSE JUndef
\* QJsonArray::at(i), zero-based: undefined when i is out of bounds.
ArrayAt(arr, i) == IF i >= 0 /\ i < Len(arr) THEN arr[i + 1] ELSE JUndef

(***************************************************************************)
(* City Code Resolver (citycodeutils.cpp).                                 *)
(***************************************************************************)
Shi == <<"shi">>
Xian == <<"xian">>
Qu == <<"qu">>

\* CityMap.insert(cityName, cityCode): QMap::insert replaces an existing key.
MapInsert(map, key, val) ==
    [k \in DOMAIN map \cup {key} |-> IF k = key THEN val ELSE map[k]]

\* The loop body of InitCityMap for one array element.
InsertCity(map, val) ==
    IF val.t = "obj"
    THEN MapInsert(map, toString(Member(val.o, "city_name")),
                        toString(Member(val.o, "city_code")))
    ELSE map

RECURSIVE InsertCities(_, _, _)
InsertCities(map, citys, i) ==
    IF i > Len(citys) THEN map
    ELSE InsertCities(InsertCity(map, citys[i]), citys, i + 1)

\* InitCityMap: the map after loading the resource into it.
InitCityMapResult(map, raw) ==
    LET jsonDoc == FromJson(raw)
    IN  IF jsonDoc.t = "arr" THEN InsertCities(map, jsonDoc.a, 1) ELSE map

\* The map getCityCodeFromName searches: loaded first when it is empty.
MapForLookup(map, raw) ==
    IF DOMAIN map = {} THEN InitCityMapResult(map, raw) ELSE map

\* A cascade that tries the "qu" suffix before the "xian" suffix.
FindCascadeQuBeforeXian(map, cityName) ==
    LET find(k) == IF k \in DOMAIN map THEN <<k>> ELSE << >>
        it1 == find(cityName)
        it2 == IF it1 = << >> THEN find(cityName \o Shi) ELSE it1
        it3 == IF it1 = << >> /\ it2 = << >> THEN find(cityName \o Qu) ELSE it2
        it4 == IF it1 = << >> /\ it3 = << >> THEN find(cityName \o Xian) ELSE it3
    IN  IF it4 = << >> THEN NoText ELSE map[it4[1]]

\* The find cascade of getCityCodeFromName on a (loaded) map.  "end" is
\* CityMap.end(); any other value of it is the key the iterator points to.
FindCascade(map, cityName) ==
    LET find(k) == IF k \in DOMAIN map THEN <<k>> ELSE << >>
        it1 == find(cityName)
        it2 == IF it1 = << >> THEN find(cityName \o Shi) ELSE it1
        it3 == IF it1 = << >> /\ it2 = << >> THEN find(cityName \o Xian) ELSE it2
        it4 == IF it1 = << >> /\ it3 = << >> THEN find(cityName \o Qu) ELSE it3
    IN  IF it4 = << >> THEN NoText ELSE map[it4[1]]

\* QString getCityCodeFromName(QString cityName)
GetCityCodeFromName(cityName) ==
    /\ CityMap' = MapForLookup(CityMap, citycodeJson)
    /\ initCalls' = IF DOMAIN CityMap = {} THEN initCalls + 1 ELSE initCalls
    /\ lookups' = lookups + 1
    /\ lastName' = cityName
    /\ lastCode' = FindCascade(CityMap', cityName)
    /\ UNCHANGED citycodeJson

(***************************************************************************)
(* The bundled dataset.  EntryPool lists array elements a citycode.json    *)
(* may hold; a dataset is the sub-array picked by a set of indices.        *)
(***************************************************************************)
BeiJing == <<"bei", "jing">>
ShangHai == <<"shang", "hai">>
CityEntry(name, code) == JObj("city_name" :> JStr(name) @@ "city_code" :> JStr(code))

EntryPool ==
    << CityEntry(BeiJing, <<"101010000">>),
       CityEntry(BeiJing \o Shi, <<"101010100">>),
       CityEntry(BeiJing \o Xian, <<"101010102">>),
       CityEntry(BeiJing \o Qu, <<"101010103">>),
       CityEntry(ShangHai \o Shi, <<"101020100">>),
       JStr(<<"x">>),
       JObj("city_name" :> JStr(ShangHai \o Qu)) >>

RECURSIVE SubArray(_, _)
SubArray(S, i) ==
    IF i > Len(EntryPool) THEN << >>
    ELSE (IF i \in S THEN <<EntryPool[i]>> ELSE << >>) \o SubArray(S, i + 1)

Dataset(S) == Bytes(JArr(SubArray(S, 1)))

\* What the user may type into lineEditCity.
InputNames == {NoText, BeiJing, BeiJing \o Shi, ShangHai, <<"x">>}
SubmitNames == {NoText, BeiJing, ShangHai}

NoReply == [noError |-> TRUE, resCode |-> 0]
InitShellIdle ==
    /\ strUrl = NoText /\ gets = 0 /\ inflight = {} /\ submits = 0 /\ replies = 0
    /\ delivered = << >>
    /\ lastReply = NoReply /\ lastRawData = BadBytes
    /\ days = << >> /\ ui = << >> /\ msgBoxes = << >> /\ parses = 0
    /\ refreshes = 0 /\ crashed = FALSE /\ oobAccess = FALSE
InitTrendIdle == geom = << >> /\ pointsHigh = << >> /\ pointsLow = << >>

\* CityCodeUtils::CityCodeUtils(): an empty map; the resource is whatever the
\* build bundled (an array, a document that is not an array, unreadable bytes).
InitResolver ==
    /\ qtDebug = FALSE /\ qtMinusSign = FALSE
    /\ \E S \in SUBSET (1..Len(EntryPool)), kind \in {"array", "object", "bad"} :
            /\ kind # "array" => S = {}
            /\ citycodeJson = CASE kind = "array" -> Dataset(S)
                                 [] kind = "object" -> Bytes(JObj(<< >>))
                                 [] OTHER -> BadBytes
    /\ CityMap = << >> /\ initCalls = 0 /\ lookups = 0
    /\ lastName = NoText /\ lastCode = NoText
    /\ InitShellIdle /\ InitTrendIdle

Lookup ==
    /\ lookups < MaxLookups
    /\ \E n \in InputNames : GetCityCodeFromName(n)
    /\ UNCHANGED <<buildVars, shellVars, trendVars>>

\* void CityCodeUtils::InitCityMap(), public, called directly: the resource is
\* read and its entries are inserted into the map as it is.
InitCityMap ==
    /\ initCalls < MaxInitCalls
    /\ CityMap' = InitCityMapResult(CityMap, citycodeJson)
    /\ initCalls' = initCalls + 1
    /\ UNCHANGED <<citycodeJson, lookups, lastName, lastCode>>
    /\ UNCHANGED <<buildVars, shellVars, trendVars>>

NextResolver == Lookup \/ InitCityMap
SpecResolver == InitResolver /\ [][NextResolver]_vars

(***************************************************************************)
(* Weather Record Model (class Day) and Forecast Parser                    *)
(* (Widget::parseWeatherJsonDataNew).                                      *)
(***************************************************************************)
DaySlots == 0..6            \* Day days[7]
StripSlots == 0..5          \* the six records and labels the UI shows

\* Day::Day(): every field an empty QString.
DayInit ==
    [mCity |-> NoText, mDate |-> NoText, mWeek |-> NoText, mWeathType |-> NoText,
     mTemp |-> NoText, mTempLow |-> NoText, mTempHigh |-> NoText, mFx |-> NoText,
     mFl |-> NoText, mAirq |-> NoText, mTips |-> NoText, mHu |-> NoText,
     mPm25 |-> NoText]

\* The eleven assignments of the loop body for one element of "data".
DayFromJson(day, obj) ==
    [day EXCEPT
        !.mDate = toString(Member(obj, "date")),
        !.mWeek = toString(Member(obj, "week")),
        !.mWeathType = toString(Member(obj, "wea")),
        !.mTemp = toString(Member(obj, "tem")),
        !.mTempLow = toString(Member(obj, "tem2")),
        !.mTempHigh = toString(Member(obj, "tem1")),
        !.mFx = toString(ArrayAt(toArray(Member(obj, "win")), 0)),
        !.mFl = toString(Member(obj, "win_speed")),
        !.mAirq = toString(Member(obj, "air_level")),
        !.mTips = toString(Member(toObject(ArrayAt(toArray(Member(obj, "index")), 3)),
                                  "desc")),
        !.mHu = toString(Member(obj, "humidity"))]

\* The loop writes days[i] for every i below weaArray.size(); days has the
\* slots 0..6 only, so a write at i >= 7 lands outside the array.
RECURSIVE ParseLoop(_, _, _)
ParseLoop(d, weaArray, i) ==
    IF i >= Len(weaArray) THEN d
    ELSE ParseLoop(IF i \in DaySlots
                   THEN [d EXCEPT ![i] = DayFromJson(d[i], toObject(weaArray[i + 1]))]
                   ELSE d,
                   weaArray, i + 1)

\* toArray()[0] and toArray()[3] are the non-const QJsonArray::operator[] on a
\* temporary, which asserts (Q_ASSERT) that the index is inside the array.
RefIndexOutside(obj) ==
    \/ Len(toArray(Member(obj, "win"))) < 1
    \/ Len(toArray(Member(obj, "index"))) < 4

\* What parseWeatherJsonDataNew does to days, without the refresh:
\*   isObject  the document is a JSON object (lines 295-299 run)
\*   hasData   "data" is present and an array (lines 302-319 run)
\*   days      the record sequence afterwards
\*   beyond    some write landed at an index >= 7
\*   refAssert some toArray()[k] indexed outside its array
\*   refAssertInside  the same, for an element at an index below 7: the
\*             assertion of line 313 / 316 comes before any write at days[7]
ParseResult(d, rawData) ==
    LET jsonDoc == FromJson(rawData)
        isObject == jsonDoc.t = "obj"
        jsonRoot == toObject(jsonDoc)
        d1 == [d EXCEPT
                 ![0].mCity = toString(Member(jsonRoot, "city")),
                 ![0].mPm25 = toString(Member(toObject(Member(jsonRoot, "aqi")), "pm25"))]
        hasData == isObject /\ Contains(jsonRoot, "data") /\ Member(jsonRoot, "data").t = "arr"
        weaArray == toArray(Member(jsonRoot, "data"))
    IN  [isObject |-> isObject,
         hasData |-> hasData,
         days |-> IF ~isObject THEN d
                  ELSE IF ~hasData THEN d1
                  ELSE ParseLoop(d1, weaArray, 0),
         beyond |-> hasData /\ Len(weaArray) > 7,
         refAssert |-> hasData /\ \E k \in 1..Len(weaArray) :
                                      RefIndexOutside(toObject(weaArray[k])),
         refAssertInside |-> hasData /\ \E k \in 1..Len(weaArray) :
                                      k <= 7 /\ RefIndexOutside(toObject(weaArray[k]))]

(***************************************************************************)
(* UI refresh (Widget::updateUI) and the tables it reads.                  *)
(* More pinyin: "you1" U+4F18, "liang" U+826F, "qing1" U+8F7B, "du" U+5EA6,*)
(* "zhong1" U+4E2D, "zhong4" U+91CD, "qing2" U+6674, "jin" U+4ECA,         *)
(* "tian" U+5929, "ming" U+660E, "hou" U+540E; "C" is the degree-Celsius   *)
(* sign U+2103 and "deg" the degree sign U+00B0.                           *)
(***************************************************************************)
\* mTypeMap as the constructor fills it: condition text -> icon resource.
TypeMap ==
    <<"bao", "xue">> :> <<":/type/BaoXue.png">> @@
    <<"bao", "yu">> :> <<":/type/BaoYu.png">> @@
    <<"bao", "yu", "dao", "da", "bao", "yu">> :> <<":/type/BaoYuDaoDaBaoYu.png">> @@
    <<"da", "bao", "yu">> :> <<":/type/DaBaoYu.png">> @@
    <<"da", "bao", "yu", "dao", "te", "da", "bao", "yu">> :> <<":/type/DaBaoYuDaoTeDaBaoYu.png">> @@
    <<"da", "dao", "bao", "xue">> :> <<":/type/DaDaoBaoXue.png">> @@
    <<"da", "xue">> :> <<":/type/DaXue.png">> @@
    <<"da", "yu">> :> <<":/type/DaYu.png">> @@
    <<"dong", "yu">> :> <<":/type/DongYu.png">> @@
    <<"duo", "yun">> :> <<":/type/DuoYun.png">> @@
    <<"fu", "chen">> :> <<":/type/FuChen.png">> @@
    <<"lei", "zhen", "yu">> :> <<":/type/LeiZhenYu.png">> @@
    <<"lei", "zhen", "yu", "ban", "you3", "bing", "bao2">> :> <<":/type/LeiZhenYuBanYouBingBao.png">> @@
    <<"mai">> :> <<":/type/Mai.png">> @@
    <<"qiang", "sha", "chen2", "bao">> :> <<":/type/QiangShaChenBao.png">> @@
    <<"qing2">> :> <<":/type/Qing.png">> @@
    <<"sha", "chen2", "bao">> :> <<":/type/ShaChenBao.png">> @@
    <<"te", "da", "bao", "yu">> :> <<":/type/TeDaBaoYu.png">> @@
    <<"undefined">> :> <<":/type/undefined.png">> @@
    <<"wu">> :> <<":/type/Wu.png">> @@
    <<"xiao", "dao", "zhong1", "xue">> :> <<":/type/XiaoDaoZhongXue.png">> @@
    <<"xiao", "dao", "zhong1", "yu">> :> <<":/type/XiaoDaoZhongYu.png">> @@
    <<"xiao", "xue">> :> <<":/type/XiaoXue.png">> @@
    <<"xiao", "yu">> :> <<":/type/XiaoYu.png">> @@
    <<"xue">> :> <<":/type/Xue.png">> @@
    <<"yang", "sha">> :> <<":/type/YangSha.png">> @@
    <<"yin">> :> <<":/type/Yin.png">> @@
    <<"yu">> :> <<":/type/Yu.png">> @@
    <<"yu", "jia", "xue">> :> <<":/type/YuJiaXue.png">> @@
    <<"zhen", "xue">> :> <<":/type/ZhenXue.png">> @@
    <<"zhen", "yu">> :> <<":/type/ZhenYu.png">> @@
    <<"zhong1", "dao", "da", "xue">> :> <<":/type/ZhongDaoDaXue.png">> @@
    <<"zhong1", "dao", "da", "yu">> :> <<":/type/ZhongDaoDaYu.png">> @@
    <<"zhong1", "xue">> :> <<":/type/ZhongXue.png">> @@
    <<"zhong1", "yu">> :> <<":/type/ZhongYu.png">>

\* mTypeMap[key]: the stored path; QMap::operator[] yields a default (empty)
\* QString for a key the map does not hold.
TypeMapAt(key) == IF key \in DOMAIN TypeMap THEN TypeMap[key] ELSE NoText

\* The style sheet updateUI sets for an air-quality level, and the levels it
\* sets one for.
AirStyle(level) ==
    CASE level = <<"you1">> -> <<"background-color: rgb(150,213,32);border-radius:7px;color:rgb(255,255,255)">>
      [] level = <<"liang">> -> <<"background-color: rgb(255,170,127);border-radius:7px;color:rgb(255,255,255)">>
      [] level = <<"qing1", "du">> -> <<"background-color: rgb(255,199,199);border-radius:7px;color:rgb(255,255,255)">>
      [] level = <<"zhong1", "du">> -> <<"background-color: rgb(255,17,17);border-radius:7px;color:rgb(255,255,255)">>
      [] level = <<"zhong4", "du">> -> <<"background-color: rgb(153,0,0);border-radius:7px;color:rgb(255,255,255)">>
      [] OTHER -> NoText
StyledLevels == {<<"you1">>, <<"liang">>, <<"qing1", "du">>, <<"zhong1", "du">>,
                 <<"zhong4", "du">>}

\* QString::split("-"), empty parts kept: SplitFrom scans text from position k
\* on, part being the characters of the current part read so far.
RECURSIVE SplitFrom(_, _, _)
SplitFrom(text, k, part) ==
    IF k > Len(text) THEN <<part>>
    ELSE IF text[k] = "-" THEN <<part>> \o SplitFrom(text, k + 1, << >>)
    ELSE SplitFrom(text, k + 1, Append(part, text[k]))
Split(text) == SplitFrom(text, 1, << >>)

\* dayList.at(k), zero-based; an index outside the list reads whatever lies
\* behind it (garbage) when the build lets the read happen.
ListAt(dayList, k, garbage) == IF k < Len(dayList) THEN dayList[k + 1] ELSE garbage

\* The labels as the form file sets them up, before any refresh.
UiInit ==
    [labelCurrentDate |-> NoText, labelCity |-> NoText, labelTmp |-> NoText,
     labelTempRange |-> NoText, labelWeatherType |-> NoText,
     labelWeatherIcon |-> NoText, labelGanbao |-> NoText, labelFXType |-> NoText,
     labelFXData |-> NoText, labelPM25Data |-> NoText, labelShiDuData |-> NoText,
     labelAirQualityData |-> NoText,
     mWeekList |-> [i \in StripSlots |-> NoText],
     mDateList |-> [i \in StripSlots |-> NoText],
     mIconList |-> [i \in StripSlots |-> NoText],
     mWeaTypeList |-> [i \in StripSlots |-> NoText],
     mAirqList |-> [i \in StripSlots |-> NoText],
     mAirqStyle |-> [i \in StripSlots |-> NoText],
     mFxList |-> [i \in StripSlots |-> NoText],
     mFlList |-> [i \in StripSlots |-> NoText]]

\* Some date among days[0..5] splits into fewer than three parts, so that
\* dayList.at(1) or dayList.at(2) indexes outside the list.
DateListOutside(d) == \E i \in StripSlots : Len(Split(d[i].mDate)) < 3

\* The labels after updateUI has run to its end on the records d.
UpdateUIResult(u, d, garbage) ==
    [u EXCEPT
        !.labelCurrentDate = d[0].mDate \o <<" ", " ">> \o d[0].mWeek,
        !.labelCity = d[0].mCity \o Shi,
        !.labelTmp = d[0].mTemp \o <<"C">>,
        !.labelTempRange = d[0].mTempLow \o <<"C">> \o <<"~">> \o d[0].mTempHigh \o <<"C">>,
        !.labelWeatherType = d[0].mWeathType,
        !.labelWeatherIcon = TypeMapAt(d[0].mWeathType),
        !.labelGanbao = d[0].mTips,
        !.labelFXType = d[0].mFx,
        !.labelFXData = d[0].mFl,
        !.labelPM25Data = d[0].mPm25,
        !.labelShiDuData = d[0].mHu,
        !.labelAirQualityData = d[0].mAirq,
        !.mWeekList = [i \in StripSlots |->
                         CASE i = 0 -> <<"jin", "tian">>
                           [] i = 1 -> <<"ming", "tian">>
                           [] i = 2 -> <<"hou", "tian">>
                           [] OTHER -> d[i].mWeek],
        !.mDateList = [i \in StripSlots |->
                         LET dayList == Split(d[i].mDate)
                         IN  ListAt(dayList, 1, garbage) \o <<"-">>
                                \o ListAt(dayList, 2, garbage)],
        !.mIconList = [i \in StripSlots |-> TypeMapAt(d[i].mWeathType)],
        !.mWeaTypeList = [i \in StripSlots |-> d[i].mWeathType],
        !.mAirqList = [i \in StripSlots |-> d[i].mAirq],
        !.mAirqStyle = [i \in StripSlots |->
                          IF d[i].mAirq \in StyledLevels THEN AirStyle(d[i].mAirq)
                          ELSE u.mAirqStyle[i]],
        !.mFxList = [i \in StripSlots |-> d[i].mFx],
        !.mFlList = [i \in StripSlots |-> d[i].mFl]]

(***************************************************************************)
(* Responses the weather API may send.  A forecast payload is built from a *)
(* tag (its month) so that the records of different payloads differ in     *)
(* every field.                                                            *)
(***************************************************************************)
Digits == <<"0", "1", "2", "3", "4", "5", "6", "7", "8", "9">>
Digit(n) == Digits[n + 1]

\* The decimal text of an integer, as the API sends a temperature.
RECURSIVE NatToText(_)
NatToText(n) == IF n < 10 THEN <<Digit(n)>> ELSE NatToText(n \div 10) \o <<Digit(n % 10)>>
IntToText(n) == IF n < 0 THEN <<"-">> \o NatToText(-n) ELSE NatToText(n)

Conditions == << <<"qing2">>, <<"duo", "yun">>, <<"yin">>, <<"duo", "yun", "zhuan", "qing2">>,
                 <<"xiao", "yu">>, <<"qing2", "zhuan", "duo", "yun">>, <<"da", "yu">>,
                 <<"wu">> >>
Levels == << <<"you1">>, <<"liang">>, <<"qing1", "du">>, <<"zhong1", "du">>,
             <<"zhong4", "du">>, <<"yan", "zhong4">> >>

IndexArray(tag, i) ==
    JArr(<< JObj("desc" :> JStr(<<"zi", "wai", "xian">>)),
            JObj("desc" :> JStr(<<"jian", "fei">>)),
            JObj("desc" :> JStr(<<"xue", "tang">>)),
            JObj("desc" :> JStr(<<"tips", Digit(tag), Digit(i)>>)),
            JObj("desc" :> JStr(<<"xi", "che">>)) >>)

\* One element of "data" with every leaf the parser reads.
DayObject(tag, i, high, low) ==
    JObj("date" :> JStr(<<"2024", "-", Digit(tag), "-", Digit(i)>>)
      @@ "week" :> JStr(<<"xing", "qi", Digit((tag + i) % 7)>>)
      @@ "wea" :> JStr(Conditions[((tag + i) % Len(Conditions)) + 1])
      @@ "tem" :> JStr(IntToText(10 * tag + i))
      @@ "tem2" :> JStr(low)
      @@ "tem1" :> JStr(high)
      @@ "win" :> JArr(<<JStr(<<"feng", Digit(tag), Digit(i)>>), JStr(<<"nan", "feng">>)>>)
      @@ "win_speed" :> JStr(<<Digit(tag), Digit(i), "ji">>)
      @@ "air_level" :> JStr(Levels[((tag + i) % Len(Levels)) + 1])
      @@ "index" :> IndexArray(tag, i)
      @@ "humidity" :> JStr(<<Digit(tag), Digit(i), "%">>))

DataArray(tag, n) ==
    [k \in 1..n |-> DayObject(tag, k - 1, IntToText(20 * tag + k), IntToText(10 - tag - k))]

\* A day-object the API sends without some of its leaves.
Without(obj, keys) == JObj([k \in DOMAIN obj.o \ keys |-> obj.o[k]])

\* n day-objects of which the third has no "date" and no "humidity".
PartialDataArray(tag, n) ==
    [k \in 1..n |-> IF k = 3 THEN Without(DataArray(tag, n)[k], {"date", "humidity"})
                    ELSE DataArray(tag, n)[k]]

\* n day-objects of which the second has no "win".
WindlessDataArray(tag, n) ==
    [k \in 1..n |-> IF k = 2 THEN Without(DataArray(tag, n)[k], {"win"})
                    ELSE DataArray(tag, n)[k]]

WeatherDoc(city, pm25, data) ==
    Bytes(JObj("city" :> JStr(city) @@ "aqi" :> JObj("pm25" :> JStr(pm25))
            @@ "data" :> data))

\* The response bodies the model feeds to the shell.
ShellPayloads ==
    << BadBytes,                                             \* not JSON
       Bytes(JArr(<< >>)),                                   \* top level is an array
       Bytes(JObj("city" :> JStr(<<"guang", "zhou">>))),     \* no "data"
       Bytes(JObj("city" :> JStr(<<"shen", "zhen">>)
               @@ "data" :> JStr(<<"none">>))),              \* "data" is no array
       WeatherDoc(<<"tian", "jin">>, <<"5", "5">>, JArr(<< >>)),   \* "data": []
       WeatherDoc(BeiJing, <<"3", "0">>, JArr(DataArray(1, 7))),
       WeatherDoc(ShangHai, <<"4", "0">>, JArr(DataArray(2, 6))),
       WeatherDoc(<<"hang", "zhou">>, <<"6", "0">>, JArr(DataArray(3, 1))),
       WeatherDoc(<<"nan", "jing">>, <<"7", "0">>, JArr(DataArray(4, 8))),
       WeatherDoc(<<"cheng", "du">>, <<"8", "0">>, JArr(PartialDataArray(5, 6))),
       WeatherDoc(<<"wu", "han">>, <<"9", "0">>, JArr(WindlessDataArray(6, 8))) >>

\* How a request may end: whether QNetworkReply::error() is NoError, and the
\* HTTP status code (0 when there is none).
ReplyStatuses ==
    {[noError |-> FALSE, resCode |-> 0],
     [noError |-> FALSE, resCode |-> 404],
     [noError |-> FALSE, resCode |-> 200],
     [noError |-> TRUE, resCode |-> 204],
     [noError |-> TRUE, resCode |-> 200]}

\* A finished QNetworkReply: its status and what readAll() returns.
Reply(status, data) ==
    [noError |-> status.noError, resCode |-> status.resCode, data |-> data]

GarbageTexts == {NoText, <<"?">>}

(***************************************************************************)
(* Forecast Orchestrator (class Widget).                                   *)
(***************************************************************************)
BaseUrl == <<"http://gfeljm.tianqiapi.com/api?unescape=1&version=v9&appid=29132936&appsecret=JV3FYmaV">>
CityIdParam == <<"&cityid=">>
MsgNetworkFailed == <<"wang luo qing qiu shi bai">>
MsgBadCityName == <<"qing shu ru zheng que de cheng shi ming cheng">>

\* The datasets the shell is run with: the usual array, and a broken resource.
ShellDatasets == {Dataset({2, 5}), BadBytes}

\* Widget::Widget(): strUrl is the base URL and one GET for it is under way.
Init ==
    /\ qtDebug \in BOOLEAN /\ qtMinusSign = FALSE
    /\ citycodeJson \in ShellDatasets
    /\ CityMap = << >> /\ initCalls = 0 /\ lookups = 0
    /\ lastName = NoText /\ lastCode = NoText
    /\ strUrl = BaseUrl
    /\ gets = 1
    /\ inflight = {[id |-> 1, url |-> BaseUrl]}
    /\ submits = 0 /\ replies = 0 /\ delivered = << >>
    /\ lastReply = NoReply /\ lastRawData = BadBytes
    /\ days = [i \in DaySlots |-> DayInit]
    /\ ui = UiInit
    /\ msgBoxes = << >>
    /\ parses = 0 /\ refreshes = 0
    /\ crashed = FALSE /\ oobAccess = FALSE
    /\ InitTrendIdle

\* The loop of a parse with result r writes at days[7]: "data" has more than
\* seven elements and no assertion has stopped the process before i is 7.
WritesBeyond(r) == r.beyond /\ ~(qtDebug /\ r.refAssertInside)

\* void Widget::parseWeatherJsonDataNew(QByteArray rawData), with the updateUI
\* call at its end.  An assertion that fails aborts a debug build, at the
\* place where it fails: what comes after it in the handler does not happen.
\* An access outside days[7] or outside dayList is undefined behaviour: the
\* process may die, or go on with whatever the read returned.
\*   assertStop   the Q_ASSERT of toArray()[k] ends the process inside the loop
\*   beyondWrite  the loop writes at days[7]
\*   listOutside  updateUI, if the process gets that far, reads outside dayList
ParseWeatherJsonDataNew(rawData) ==
    \E r \in {ParseResult(days, rawData)} :
    \E assertStop \in {qtDebug /\ r.refAssert} :
    \E beyondWrite \in {WritesBeyond(r)} :
    \E listOutside \in {~assertStop /\ r.hasData /\ DateListOutside(r.days)} :
    \E abort \in BOOLEAN, garbage \in GarbageTexts :
        /\ (assertStop \/ (qtDebug /\ listOutside)) => abort
        /\ ~(beyondWrite \/ listOutside \/ assertStop) => ~abort
        /\ (abort \/ ~listOutside) => garbage = NoText
        /\ parses' = parses + 1
        /\ lastRawData' = rawData
        /\ oobAccess' = (oobAccess \/ beyondWrite \/ listOutside)
        /\ crashed' = abort
        /\ IF abort
           THEN UNCHANGED <<days, ui, refreshes>>
           ELSE /\ days' = r.days
                /\ IF r.hasData
                   THEN /\ ui' = UpdateUIResult(ui, r.days, garbage)
                        /\ refreshes' = refreshes + 1
                   ELSE UNCHANGED <<ui, refreshes>>

\* A test that looks at the status code only.
RequestSucceededByStatusOnly(reply) == reply.resCode = 200

\* reply->error() == QNetworkReply::NoError && resCode == 200
RequestSucceeded(reply) == reply.noError /\ reply.resCode = 200

\* A handler that applies a response only when it answers the request issued
\* last, and drops the response to any earlier request.
ReadHttpReplyOfLatestRequest(req, reply) ==
    /\ ~crashed
    /\ replies < MaxReplies
    /\ req \in inflight
    /\ inflight' = inflight \ {req}
    /\ replies' = replies + 1
    /\ delivered' = Append(delivered, req.id)
    /\ lastReply' = [noError |-> reply.noError, resCode |-> reply.resCode]
    /\ IF RequestSucceeded(reply) /\ req.id = gets
       THEN /\ ParseWeatherJsonDataNew(reply.data)
            /\ UNCHANGED msgBoxes
       ELSE /\ msgBoxes' = IF RequestSucceeded(reply) THEN msgBoxes
                           ELSE Append(msgBoxes, MsgNetworkFailed)
            /\ UNCHANGED <<lastRawData, days, ui, parses, refreshes, crashed, oobAccess>>
    /\ UNCHANGED <<buildVars, resolverVars, strUrl, gets, submits, trendVars>>

\* void Widget::readHttpReply(QNetworkReply *reply)
ReadHttpReply(req, reply) ==
    /\ ~crashed
    /\ replies < MaxReplies
    /\ req \in inflight
    /\ inflight' = inflight \ {req}
    /\ replies' = replies + 1
    /\ delivered' = Append(delivered, req.id)
    /\ lastReply' = [noError |-> reply.noError, resCode |-> reply.resCode]
    /\ IF RequestSucceeded(reply)
       THEN /\ ParseWeatherJsonDataNew(reply.data)
            /\ UNCHANGED msgBoxes
       ELSE /\ msgBoxes' = Append(msgBoxes, MsgNetworkFailed)
            /\ UNCHANGED <<lastRawData, days, ui, parses, refreshes, crashed, oobAccess>>
    /\ UNCHANGED <<buildVars, resolverVars, strUrl, gets, submits, trendVars>>

\* A test that lets every code through.
HasCityCodeAlways(cityCode) == TRUE

\* cityCode != NULL: the code is not the empty string.
HasCityCode(cityCode) == cityCode # NoText

\* void Widget::on_LineEditCity_clicked()
OnLineEditCityClicked(cityNameFromUser) ==
    /\ ~crashed
    /\ submits < MaxSubmits
    /\ submits' = submits + 1
    /\ GetCityCodeFromName(cityNameFromUser)
    /\ IF HasCityCode(lastCode')
       THEN /\ strUrl' = strUrl \o CityIdParam \o lastCode'
            /\ gets' = gets + 1
            /\ inflight' = inflight \cup {[id |-> gets + 1, url |-> strUrl']}
            /\ UNCHANGED msgBoxes
       ELSE /\ msgBoxes' = Append(msgBoxes, MsgBadCityName)
            /\ UNCHANGED <<strUrl, gets, inflight>>
    /\ UNCHANGED <<buildVars, replies, delivered, lastReply, lastRawData, days, ui, parses,
                   refreshes, crashed, oobAccess, trendVars>>

\* void Widget::on_lineEditCity_returnPressed()
OnLineEditCityReturnPressed(cityNameFromUser) == OnLineEditCityClicked(cityNameFromUser)

\* The finished(reply) signal: some request under way ends, in some way.
Finished ==
    \E req \in inflight, status \in ReplyStatuses, k \in 1..Len(ShellPayloads) :
        /\ ~RequestSucceeded(status) => k = 6
        /\ ReadHttpReply(req, Reply(status, ShellPayloads[k]))
Clicked == \E n \in SubmitNames : OnLineEditCityClicked(n)
ReturnPressed == \E n \in SubmitNames : OnLineEditCityReturnPressed(n)

Next == Finished \/ Clicked \/ ReturnPressed
Spec == Init /\ [][Next]_vars

(***************************************************************************)
(* Trend Curve Layout (Widget::drawTempLineHigh, Widget::drawTempLineLow). *)
(***************************************************************************)
DigitValue(c) == CHOOSE n \in 0..9 : Digits[n + 1] = c
IsDigit(c) == c \in {"0", "1", "2", "3", "4", "5", "6", "7", "8", "9"}

\* The largest int; the smallest is -IntMax - 1.
IntMax == 2147483647
IntMinDigits == <<"2", "1", "4", "7", "4", "8", "3", "6", "4", "8">>

\* The value of the digits of text from position k on, appended to acc; -1
\* as soon as the value is above IntMax.
RECURSIVE DigitsToNat(_, _, _)
DigitsToNat(text, k, acc) ==
    IF k > Len(text) \/ acc = -1 THEN acc
    ELSE IF acc > (IntMax - DigitValue(text[k])) \div 10 THEN -1
    ELSE DigitsToNat(text, k + 1, 10 * acc + DigitValue(text[k]))

\* QChar::isSpace(): blank, tab, line feed, carriage return, form feed,
\* "vt" U+000B, "nel" U+0085, "nbsp" U+00A0, and the characters of the
\* categories Zs, Zl and Zp, written "uXXXX" after their code points (U+3000
\* is the ideographic space).
IsSpace(c) ==
    c \in {" ", "\t", "\n", "\r", "\f", "vt", "nel", "nbsp",
           "u1680", "u2000", "u2001", "u2002", "u2003", "u2004", "u2005", "u2006",
           "u2007", "u2008", "u2009", "u200A", "u2028", "u2029", "u202F", "u205F",
           "u3000"}

\* The characters read as a minus sign: "-", and "u2212" (U+2212 MINUS SIGN)
\* with a Qt that maps it to "-".
MinusSigns == IF qtMinusSign THEN {"-", "u2212"} ELSE {"-"}

RECURSIVE TrimLeft(_)
TrimLeft(text) ==
    IF text # << >> /\ IsSpace(Head(text)) THEN TrimLeft(Tail(text)) ELSE text
RECURSIVE TrimRight(_)
TrimRight(text) ==
    IF text # << >> /\ IsSpace(text[Len(text)])
    THEN TrimRight(SubSeq(text, 1, Len(text) - 1)) ELSE text

RECURSIVE SkipZeros(_)
SkipZeros(text) ==
    IF Len(text) > 1 /\ Head(text) = "0" THEN SkipZeros(Tail(text)) ELSE text

\* QString::toInt(): surrounding white space is skipped, then an optional
\* sign and decimal digits are read; 0 when the text is anything else, and 0
\* when the number does not fit an int.
toInt(text) ==
    LET t == TrimRight(TrimLeft(text))
        signed == t # << >> /\ Head(t) \in MinusSigns \cup {"+"}
        negative == signed /\ Head(t) \in MinusSigns
        body == IF signed THEN Tail(t) ELSE t
        ok == body # << >> /\ \A k \in 1..Len(body) : IsDigit(body[k])
    IN  IF ~ok THEN 0
        ELSE IF negative /\ SkipZeros(body) = IntMinDigits THEN -IntMax - 1
        ELSE IF DigitsToNat(body, 1, 0) = -1 THEN 0
        ELSE IF negative THEN -DigitsToNat(body, 1, 0)
        ELSE DigitsToNat(body, 1, 0)

\* The / of C++ on int, for a positive divisor: the quotient is truncated
\* toward zero.
IntDiv(a, b) == IF a >= 0 THEN a \div b ELSE -((-a) \div b)

\* int + int and int - int.  A result outside the range of int is undefined
\* behaviour: AddOverflows / SubOverflows say when it is, WrapAdd / WrapSub
\* give the value a build that goes on computes (the result modulo 2^32).
IntMin == -IntMax - 1
AddOverflows(a, b) == (b > 0 /\ a > IntMax - b) \/ (b < 0 /\ a < IntMin - b)
WrapAdd(a, b) ==
    IF b > 0 /\ a > IntMax - b THEN (a - IntMax - 1) + (b - IntMax - 1)
    ELSE IF b < 0 /\ a < IntMin - b THEN (a + IntMax + 1) + (b + IntMax + 1)
    ELSE a + b
SubOverflows(a, b) == (b < 0 /\ a > IntMax + b) \/ (b > 0 /\ a < IntMin + b)
WrapSub(a, b) ==
    IF b < 0 /\ a > IntMax + b THEN (a - IntMax - 1) - (b + IntMax + 1)
    ELSE IF b > 0 /\ a < IntMin + b THEN (a + IntMax + 1) - (b - IntMax - 1)
    ELSE a - b
\* int * 3
Times3Overflows(a) == AddOverflows(a, a) \/ AddOverflows(WrapAdd(a, a), a)
Times3(a) == WrapAdd(WrapAdd(a, a), a)

\* sum += f[0], ..., sum += f[i], from sum = 0.
RECURSIVE SumTo(_, _)
SumTo(f, i) == IF i < 0 THEN 0 ELSE WrapAdd(SumTo(f, i - 1), f[i])
RECURSIVE SumOverflows(_, _)
SumOverflows(f, i) ==
    IF i < 0 THEN FALSE
    ELSE SumOverflows(f, i - 1) \/ AddOverflows(SumTo(f, i - 1), f[i])

\* The points[6] both routines compute: temps are the six temperature texts,
\* height the chart widget's height, g.airqX / g.airqW the x() and width() of
\* the mAirqList labels.  Every +, - and * is the one of int.
TrendPoints(temps, height, g) ==
    LET t == <<toInt(temps[0]), toInt(temps[1]), toInt(temps[2]),
               toInt(temps[3]), toInt(temps[4]), toInt(temps[5])>>
        sum == SumTo([i \in StripSlots |-> t[i + 1]], 5)
        ave == IntDiv(sum, 6)
        middle == IntDiv(height, 2)
    IN  [i \in StripSlots |->
            [x |-> WrapAdd(g.airqX[i], IntDiv(g.airqW[i], 2)),
             y |-> WrapSub(middle, Times3(WrapSub(t[i + 1], ave)))]]

\* Some int operation of the routine overflows: in the sum loop, in
\* x() + width()/2, in (t - ave)*3, in middle - offSet, or in the
\* points[i].x() - 10 and points[i].y() - 10 handed to drawText.
TrendOverflows(temps, height, g) ==
    LET t == <<toInt(temps[0]), toInt(temps[1]), toInt(temps[2]),
               toInt(temps[3]), toInt(temps[4]), toInt(temps[5])>>
        f == [i \in StripSlots |-> t[i + 1]]
        ave == IntDiv(SumTo(f, 5), 6)
        middle == IntDiv(height, 2)
    IN  \/ SumOverflows(f, 5)
        \/ \E i \in StripSlots :
              \/ AddOverflows(g.airqX[i], IntDiv(g.airqW[i], 2))
              \/ SubOverflows(t[i + 1], ave)
              \/ Times3Overflows(WrapSub(t[i + 1], ave))
              \/ SubOverflows(middle, Times3(WrapSub(t[i + 1], ave)))
              \/ SubOverflows(WrapAdd(g.airqX[i], IntDiv(g.airqW[i], 2)), 10)
              \/ SubOverflows(WrapSub(middle, Times3(WrapSub(t[i + 1], ave))), 10)

\* void Widget::drawTempLineHigh(), on a Paint event of widget0404.  When an
\* int overflows (undefined behaviour) the process stops, or goes on with the
\* wrapped values.
DrawTempLineHigh ==
    /\ ~crashed
    /\ \E temps \in {[i \in StripSlots |-> days[i].mTempHigh]} :
       \E abort \in (IF TrendOverflows(temps, geom.h0404, geom) THEN BOOLEAN ELSE {FALSE}) :
          /\ crashed' = abort
          /\ pointsHigh' = IF abort THEN pointsHigh
                           ELSE TrendPoints(temps, geom.h0404, geom)
    /\ UNCHANGED <<buildVars, resolverVars, shellData, geom, pointsLow>>

\* void Widget::drawTempLineLow(), on a Paint event of widget0405
DrawTempLineLow ==
    /\ ~crashed
    /\ \E temps \in {[i \in StripSlots |-> days[i].mTempLow]} :
       \E abort \in (IF TrendOverflows(temps, geom.h0405, geom) THEN BOOLEAN ELSE {FALSE}) :
          /\ crashed' = abort
          /\ pointsLow' = IF abort THEN pointsLow
                          ELSE TrendPoints(temps, geom.h0405, geom)
    /\ UNCHANGED <<buildVars, resolverVars, shellData, geom, pointsHigh>>

\* Layouts of the form: the heights of the two chart widgets and the places
\* of the six air-quality labels.
Geometries ==
    {[h0404 |-> 150, h0405 |-> 151,
      airqX |-> [i \in StripSlots |-> 15 + 88 * i],
      airqW |-> [i \in StripSlots |-> 61]],
     [h0404 |-> 121, h0405 |-> 90,
      airqX |-> [i \in StripSlots |-> 9 + 90 * i],
      airqW |-> [i \in StripSlots |-> 70 + i]]}

\* Temperature texts of a forecast: a frost, a degree above zero, and a text
\* that is no number.
MaxTemp == 2
NotANumber == <<"1", "x">>
TempTexts == {IntToText(-MaxTemp), IntToText(1), NotANumber}

\* A decimal text above the largest int.
TooLargeForInt == <<"9", "9", "9", "9", "9", "9", "9", "9", "9", "9", "9">>

\* A temperature of which six do not add up inside an int.
HugeTemp == <<"1", "0", "0", "0", "0", "0", "0", "0", "0", "0">>

\* Whole series of six, used for the series that is not varied slot by slot.
TempSeries ==
    << [i \in StripSlots |-> IntToText(10)],
       [i \in StripSlots |-> IntToText(10 * (i % 3))],
       [i \in StripSlots |-> IF i = 5 THEN NoText ELSE IntToText(i - 7 - MaxTemp)],
       [i \in StripSlots |->
           CASE i = 0 -> <<"\t", "5">>
             [] i = 1 -> <<"5", "\n">>
             [] i = 2 -> <<" ", "-", "7", "nbsp">>
             [] i = 3 -> TooLargeForInt
             [] i = 4 -> <<"u3000", "5", "u2029">>
             [] OTHER -> <<"u2212", "5">>],
       [i \in StripSlots |-> HugeTemp] >>

TrendPayload(high, low) ==
    WeatherDoc(BeiJing, <<"3", "0">>,
               JArr([k \in 1..6 |-> DayObject(1, k - 1, high[k - 1], low[k - 1])]))

InitTrend ==
    /\ qtDebug = FALSE /\ qtMinusSign \in BOOLEAN
    /\ citycodeJson = Dataset({2, 5})
    /\ CityMap = << >> /\ initCalls = 0 /\ lookups = 0
    /\ lastName = NoText /\ lastCode = NoText
    /\ strUrl = BaseUrl
    /\ gets = 1
    /\ inflight = {[id |-> 1, url |-> BaseUrl]}
    /\ submits = 0 /\ replies = 0 /\ delivered = << >>
    /\ lastReply = NoReply /\ lastRawData = BadBytes
    /\ days = [i \in DaySlots |-> DayInit]
    /\ ui = UiInit
    /\ msgBoxes = << >>
    /\ parses = 0 /\ refreshes = 0
    /\ crashed = FALSE /\ oobAccess = FALSE
    /\ geom \in Geometries
    /\ pointsHigh = << >> /\ pointsLow = << >>

\* The forecast arrives: either the high temperatures vary slot by slot over
\* the first whole series of low ones, or the high temperatures are all one
\* degree over any of the whole series.
FinishedForecast ==
    \E req \in inflight, high \in [StripSlots -> TempTexts], k \in 1..Len(TempSeries) :
        /\ k = 1 \/ high = [i \in StripSlots |-> IntToText(1)]
        /\ ReadHttpReply(req, Reply([noError |-> TRUE, resCode |-> 200],
                                    TrendPayload(high, TempSeries[k])))

NextTrend == FinishedForecast \/ DrawTempLineHigh \/ DrawTempLineLow
SpecTrend == InitTrend /\ [][NextTrend]_vars

(***************************************************************************)
(* Trend properties.                                                       *)
(***************************************************************************)
Abs(n) == IF n < 0 THEN -n ELSE n
\* The integer a temperature text stands for: the n whose decimal text it is
\* once the white space around it is left out, and 0 for a text that is no
\* number (or no number an int can hold).
TextOfTemp == [n \in -40..40 |-> IntToText(n)]
Inked(text) == {k \in 1..Len(text) : ~IsSpace(text[k])}
Core(text) ==
    IF Inked(text) = {} THEN << >>
    ELSE SubSeq(text, CHOOSE i \in Inked(text) : \A k \in Inked(text) : i <= k,
                      CHOOSE j \in Inked(text) : \A k \in Inked(text) : k <= j)
Signed(c) ==
    IF qtMinusSign /\ c # << >> /\ Head(c) = "u2212" THEN <<"-">> \o Tail(c) ELSE c
TempOfCore(c) ==
    IF c = HugeTemp THEN 1000000000
    ELSE IF \E n \in DOMAIN TextOfTemp : TextOfTemp[n] = c
    THEN CHOOSE n \in DOMAIN TextOfTemp : TextOfTemp[n] = c
    ELSE 0
TempOf(text) == TempOfCore(Signed(Core(text)))
\* sum / 6 truncated toward zero: the a nearest to zero with |sum - 6a| < 6.
Average6(sum) ==
    CHOOSE a \in -40..40 : Abs(sum - 6 * a) < 6 /\ Abs(6 * a) <= Abs(sum)
HalfOf(h) == CHOOSE m \in 0..h : 2 * m <= h /\ h < 2 * m + 2

\* Equal temperatures are all at mid-height (their average is their value).
PlacedAsClaimed(points, temps, height) ==
    \E t \in {<<TempOf(temps[0]), TempOf(temps[1]), TempOf(temps[2]),
                 TempOf(temps[3]), TempOf(temps[4]), TempOf(temps[5])>>} :
        /\ \A i \in StripSlots :
              points[i].x = geom.airqX[i] + HalfOf(geom.airqW[i])
        /\ IF \A i \in 1..6 : t[i] = t[1]
           THEN \A i \in StripSlots : points[i].y = HalfOf(height)
           ELSE \E A \in {Average6(t[1] + t[2] + t[3] + t[4] + t[5] + t[6])} :
                   \A i \in StripSlots :
                       points[i].y = HalfOf(height) - 3 * (t[i + 1] - A)

\* C10: both trend routines place point i at y = H/2 - 3*(t[i] - A), with A the
\* sum of the six temperatures divided by 6 and truncated toward zero and a
\* text that is no number counted as 0, and at the x of the centre of slot i;
\* six equal temperatures are all placed at y = H/2.
\* (A paint computes the points anew from the records it finds.)
C10_TrendPointPlacement ==
    [][/\ pointsHigh' # pointsHigh =>
             PlacedAsClaimed(pointsHigh', [i \in StripSlots |-> days[i].mTempHigh],
                             geom.h0404)
       /\ pointsLow' # pointsLow =>
             PlacedAsClaimed(pointsLow', [i \in StripSlots |-> days[i].mTempLow],
                             geom.h0405)]_vars

(***************************************************************************)
(* Shell properties.                                                       *)
(***************************************************************************)
SetMinOf(S) == CHOOSE x \in S : \A y \in S : x <= y
\* The step is one parseWeatherJsonDataNew call / one readHttpReply call /
\* one submit.
ParseStep == parses' = parses + 1
ReplyStep == replies' = replies + 1
SubmitStep == submits' = submits + 1

\* The payload classes the claims speak of, read off the bytes alone.
NotAnObject(raw) == ~raw.valid \/ raw.root.t # "obj"
DataMissing(raw) ==
    /\ raw.valid /\ raw.root.t = "obj"
    /\ ("data" \notin DOMAIN raw.root.o \/ raw.root.o["data"].t # "arr")
DataEmpty(raw) ==
    /\ raw.valid /\ raw.root.t = "obj"
    /\ "data" \in DOMAIN raw.root.o
    /\ raw.root.o["data"].t = "arr" /\ Len(raw.root.o["data"].a) = 0

\* C3: a parse of a payload that is not valid JSON, is not an object, or has
\* no "data" array changes no field of any record and triggers no refresh.
C3_FailedParseLeavesRecords ==
    [][(ParseStep /\ (NotAnObject(lastRawData') \/ DataMissing(lastRawData')))
          => (days' = days /\ refreshes' = refreshes /\ ui' = ui)]_vars

\* C4: after a successful parse (one that refreshes the UI) the six usable
\* records are those of the payload just parsed alone: they are what the parse
\* of that payload yields on untouched records, whatever was held before.
C4_WholesaleReplacement ==
    [][(ParseStep /\ refreshes' = refreshes + 1)
          => \A i \in StripSlots :
                days'[i] = ParseResult([j \in DaySlots |-> DayInit], lastRawData').days[i]]_vars

\* C5: a 200 response whose payload is an object with "data": [] changes no
\* record field and no label, and is processed without a crash or an access
\* out of range.
C5_EmptyDataChangesNothing ==
    [][(ParseStep /\ DataEmpty(lastRawData'))
          => (days' = days /\ ui' = ui /\ ~crashed' /\ oobAccess' = oobAccess)]_vars

\* C6: the request a submit issues has the URL base + "&cityid=" + the code
\* resolved for that submit's name: one cityid parameter, no earlier codes.
C6_OneCityIdPerRequest ==
    [][(SubmitStep /\ gets' = gets + 1)
          => \E req \in inflight' \ inflight :
                req.url = BaseUrl \o CityIdParam \o lastCode']_vars

\* C7: at most one request is issued and not yet answered.
C7_AtMostOneInFlight == Cardinality(inflight) <= 1

\* C8: a reply with a transport error or a status other than 200 shows one
\* error dialog, does not run the parser, and leaves records and labels alone.
C8_FailedReplyKeepsData ==
    [][(ReplyStep /\ ~(lastReply'.noError /\ lastReply'.resCode = 200))
          => /\ msgBoxes' = Append(msgBoxes, MsgNetworkFailed)
             /\ parses' = parses /\ refreshes' = refreshes
             /\ days' = days /\ ui' = ui]_vars

\* C8 witness: data is on screen, a reply has failed with status 404, and the
\* one dialog it raised is the only trace of it.
C8_Witness ==
    /\ replies = 2 /\ parses = 1 /\ refreshes = 1
    /\ lastReply = [noError |-> FALSE, resCode |-> 404]
    /\ msgBoxes = <<MsgNetworkFailed>>
    /\ days[0].mCity = BeiJing /\ ui.labelCity = BeiJing \o Shi

\* C9: a submit whose name resolves to no code issues no request, shows one
\* error dialog and leaves the URL and the records alone; a submit whose name
\* resolves issues exactly one GET.
C9_SubmitIssuesRequestIffResolved ==
    [][SubmitStep
          => IF lastCode' = NoText
             THEN /\ gets' = gets /\ inflight' = inflight
                  /\ msgBoxes' = Append(msgBoxes, MsgBadCityName)
                  /\ strUrl' = strUrl /\ days' = days
             ELSE /\ gets' = gets + 1
                  /\ Cardinality(inflight' \ inflight) = 1 /\ inflight \subseteq inflight'
                  /\ msgBoxes' = msgBoxes]_vars

\* C9 witness: two submits were made, one resolved (one GET more than the
\* constructor's) and one did not (one dialog, and it was the later one).
C9_Witness ==
    /\ submits = 2 /\ gets = 2 /\ lastCode = NoText /\ lastName = NoText
    /\ msgBoxes = <<MsgBadCityName>>
    /\ strUrl = BaseUrl \o CityIdParam \o <<"101010100">>

\* C11: whatever the length of "data", the parser writes record slots 0..6
\* only: no parse writes a record at an index outside days[7].
C11_WritesStayInsideRecords ==
    [][ParseStep => ~WritesBeyond(ParseResult(days, lastRawData'))]_vars

\* The members of a day-object the parser reads.
DayLeaves == {"date", "week", "wea", "tem", "tem2", "tem1", "win", "win_speed",
              "air_level", "index", "humidity"}
\* The payload has a "data" array of one to seven day-objects, and some
\* day-object lacks a member the parser reads.
MissingLeaves(raw) ==
    /\ raw.valid /\ raw.root.t = "obj"
    /\ "data" \in DOMAIN raw.root.o /\ raw.root.o["data"].t = "arr"
    /\ Len(raw.root.o["data"].a) \in 1..7
    /\ \A k \in 1..Len(raw.root.o["data"].a) : raw.root.o["data"].a[k].t = "obj"
    /\ \E k \in 1..Len(raw.root.o["data"].a) :
           ~(DayLeaves \subseteq DOMAIN raw.root.o["data"].a[k].o)

\* C12: a payload whose day-objects lack some leaves is parsed to the end: no
\* crash, every record gets the payload's fields with the empty text for a
\* missing one, the refresh runs, and the refresh reads no date part that
\* does not exist.
C12_MissingLeavesHandled ==
    [][(ParseStep /\ MissingLeaves(lastRawData'))
          => /\ ~crashed'
             /\ days' = ParseResult(days, lastRawData').days
             /\ refreshes' = refreshes + 1
             /\ ~DateListOutside(ParseResult(days, lastRawData').days)]_vars

\* C13: once the UI has been refreshed, the badge of every slot has the
\* colour of the level the slot shows when that level is one of the five
\* known ones, and the style of the form (no special styling) otherwise,
\* whatever the slot showed before.
C13_BadgeStyleFollowsLevel ==
    refreshes > 0 =>
        \A i \in StripSlots :
            ui.mAirqStyle[i] = IF ui.mAirqList[i] \in StyledLevels
                               THEN AirStyle(ui.mAirqList[i])
                               ELSE UiInit.mAirqStyle[i]

\* The part of a condition text after its first "zhuan", and the whole text
\* when it has none.
Zhuan == "zhuan"
AfterZhuan(c) ==
    IF \E k \in 1..Len(c) : c[k] = Zhuan
    THEN SubSeq(c, SetMinOf({k \in 1..Len(c) : c[k] = Zhuan}) + 1, Len(c))
    ELSE c
\* The icon of a key, with the "undefined" entry for a key the table lacks.
IconOrUndefined(key) ==
    IF key \in DOMAIN TypeMap THEN TypeMap[key] ELSE TypeMap[<<"undefined">>]

\* C14: once the UI has been refreshed, every slot shows the full condition
\* text of its record, and its icon is the icon of the part of that text
\* after "zhuan" (of the whole text when it has no "zhuan"), the "undefined"
\* icon standing in for a key the table does not hold.
C14_IconOfConditionKey ==
    refreshes > 0 =>
        \A i \in StripSlots :
            /\ ui.mWeaTypeList[i] = days[i].mWeathType
            /\ ui.mIconList[i] = IconOrUndefined(AfterZhuan(ui.mWeaTypeList[i]))

\* Every request issued so far is either still under way or has had its
\* finished signal handled once, and never both.
DeliveredOnce ==
    /\ Len(delivered) = replies
    /\ \A id \in 1..gets :
          LET under == \E req \in inflight : req.id = id
              times == Cardinality({k \in 1..Len(delivered) : delivered[k] = id})
          IN  IF under THEN times = 0 ELSE times = 1
    /\ \A k \in 1..Len(delivered) : delivered[k] \in 1..gets

\* C15: every request issued is delivered to readHttpReply once at most and
\* is under way until then; a reply is handled whichever request it answers:
\* a successful one is parsed and, unless the process dies, its records are
\* written over the current ones, so the records follow the order of arrival
\* and not the order of the submits.
C15_RepliesAppliedInArrivalOrder ==
    /\ []DeliveredOnce
    /\ [][ReplyStep
             => /\ \E req \in inflight :
                      /\ inflight' = inflight \ {req}
                      /\ delivered' = Append(delivered, req.id)
                /\ (lastReply'.noError /\ lastReply'.resCode = 200)
                      => /\ parses' = parses + 1
                         /\ ~crashed' => days' = ParseResult(days, lastRawData').days]_vars

\* C15 witness: the constructor's request and the request of a submit for
\* Shanghai overlapped; the answer to the submit (Shanghai's forecast) came
\* first and the answer to the constructor's request (Beijing's) came last,
\* and the records and labels are Beijing's.
C15_Witness ==
    /\ gets = 2 /\ inflight = {} /\ delivered = <<2, 1>> /\ parses = 2 /\ ~crashed
    /\ lastName = ShangHai /\ strUrl = BaseUrl \o CityIdParam \o <<"101020100">>
    /\ lastRawData = ShellPayloads[6]
    /\ days = ParseResult(ParseResult([i \in DaySlots |-> DayInit], ShellPayloads[7]).days,
                          ShellPayloads[6]).days
    /\ days[0].mCity = BeiJing /\ ui.labelCity = BeiJing \o Shi

(***************************************************************************)
(* Resolver properties.                                                    *)
(***************************************************************************)
SetMin(S) == CHOOSE x \in S : \A y \in S : x <= y
SuffixedKeys(n) == <<n, n \o Shi, n \o Xian, n \o Qu>>

\* C1: after a lookup of name n the value returned is the code the table holds
\* for the first of n, n+shi, n+xian, n+qu that is a key of the table, and the
\* empty text when none of the four is a key.
C1_FirstPresentKey ==
    lookups > 0 =>
        LET keys == SuffixedKeys(lastName)
            present == {i \in 1..4 : keys[i] \in DOMAIN CityMap}
        IN  lastCode = IF present = {} THEN NoText
                       ELSE CityMap[keys[SetMin(present)]]

\* C1 witness: the name and name+shi are absent, name+xian and name+qu are
\* both present, and the lookup returned the code stored under name+xian.
C1_Witness ==
    /\ lookups > 0 /\ lastName = BeiJing
    /\ BeiJing \notin DOMAIN CityMap /\ (BeiJing \o Shi) \notin DOMAIN CityMap
    /\ (BeiJing \o Xian) \in DOMAIN CityMap /\ (BeiJing \o Qu) \in DOMAIN CityMap
    /\ lastCode = <<"101010102">>

\* C2: over any sequence of getCityCodeFromName calls InitCityMap runs at most
\* once, also when the load leaves the table empty: a call after the first
\* one never runs InitCityMap.  (Direct calls of InitCityMap are not counted.)
C2_LoadedAtMostOnce ==
    [][(lookups' = lookups + 1 /\ lookups > 0) => initCalls' = initCalls]_vars

====
